---------------------------- MODULE Spec2Model ----------------------------
(***************************************************************************)
(* A model of align (mahkoh/align-rust): src/src/main.rs, the current      *)
(* program, and Words::new of src/align.rs, its 2014 predecessor.          *)
(*                                                                         *)
(* Text is modelled as the program sees it: a line is a sequence of bytes  *)
(* (numbers 0..255) holding UTF-8, a format string is a sequence of bytes. *)
(* Indices into Rust vectors and slices are 0-based in the source and kept *)
(* 0-based here; TLA+ sequences are 1-based, so byte i of a line is        *)
(* line[i + 1].                                                            *)
(***************************************************************************)
EXTENDS Integers, Sequences, FiniteSets, TLC

VARIABLES
    (* parse_positioning applied to one format string *)
    p_fmt, p_result,
    (* Words::new of src/src/main.rs applied to one line *)
    w_line, w_delim, w_until, w_result,
    (* Words::new of src/align.rs, one step per iteration of its loop *)
    o_line, o_delim, o_until, o_pos, o_words, o_pc,
    (* the program: Opts, the input still to be read, read_as_unicode's and *)
    (* main's locals, what has been written to stdout; cells records, for  *)
    (* each line written, the display width of what the line held when     *)
    (* each of its words was reached; pass counts the runs of the program, *)
    (* first_stdout keeps the output of the first                          *)
    fmt, out_sep, str_delim, until, positioning, stdin, indent, lines,
    padding, next_line, stdout, cells, pc, pass, first_stdout

p_vars == <<p_fmt, p_result>>
w_vars == <<w_line, w_delim, w_until, w_result>>
o_vars == <<o_line, o_delim, o_until, o_pos, o_words, o_pc>>
m_vars == <<fmt, out_sep, str_delim, until, positioning, stdin, indent, lines,
            padding, next_line, stdout, cells, pc, pass, first_stdout>>
vars == <<p_vars, w_vars, o_vars, m_vars>>

----------------------------------------------------------------------------
(* Bytes the source names.                                                 *)

SP == 32
TAB == 9
LF == 10
VT == 11
FF == 12
CR == 13
NEL == 133
NBSP == 160
QUOTE == 34
BACKSLASH == 92
DIGIT_0 == 48
DIGIT_9 == 57
LT == 60
EQ == 61
GT == 62

(* Option<T>: None is the empty sequence, Some(x) the sequence <<x>>.      *)
None == <<>>
Some(x) == <<x>>

(* Result<T, E>.                                                           *)
Ok(v) == [tag |-> "Ok", val |-> v]
Err(e) == [tag |-> "Err", val |-> e]

Min(S) == CHOOSE x \in S : \A y \in S : x <= y
Max(S) == CHOOSE x \in S : \A y \in S : x >= y

RECURSIVE Concat(_)
Concat(ss) == IF ss = <<>> THEN <<>> ELSE Head(ss) \o Concat(Tail(ss))

Spaces(n) == [i \in 1..n |-> SP]

----------------------------------------------------------------------------
(* DynVec<T>                                                               *)

DynVec_new(default) == [vec |-> <<>>, default |-> default]

DynVec_get(dv, i) ==
    IF i < Len(dv.vec) THEN dv.vec[i + 1] ELSE dv.default

DynVec_set(dv, index, v) ==
    LET l == Len(dv.vec)
        resized == IF index >= l
                   THEN [j \in 1..(index + 1) |->
                            IF j <= l THEN dv.vec[j] ELSE dv.default]
                   ELSE dv.vec
    IN  [dv EXCEPT !.vec = [resized EXCEPT ![index + 1] = v]]

DynVec_push_keeps_default(dv, v) ==
    [vec |-> Append(dv.vec, v), default |-> dv.default]

DynVec_push(dv, v) ==
    [vec |-> Append(dv.vec, v), default |-> v]

----------------------------------------------------------------------------
(* parse_positioning                                                       *)

is_digit_from_one(c) == ~(c <= DIGIT_0 \/ c > DIGIT_9)

(* the negation of the closure |&c| c < b'0' || c > b'9' *)
is_digit(c) == ~(c < DIGIT_0 \/ c > DIGIT_9)

(* fmt.as_bytes().iter().position(|&c| c < b'0' || c > b'9') *)
non_digit_position(s) ==
    LET idx == {i \in 1..Len(s) : ~is_digit(s[i])}
    IN  IF idx = {} THEN None ELSE Some(Min(idx) - 1)

(* usize::MAX of a 64-bit target, in decimal digits: 18446744073709551615.  *)
UsizeMaxDigits ==
    <<1, 8, 4, 4, 6, 7, 4, 4, 0, 7, 3, 7, 0, 9, 5, 5, 1, 6, 1, 5>>

RECURSIVE StripZeros(_)
StripZeros(ds) ==
    IF ds # <<>> /\ Head(ds) = 0 THEN StripZeros(Tail(ds)) ELSE ds

RECURSIVE DigitsGreater(_, _)
DigitsGreater(a, b) ==
    IF a = <<>> THEN FALSE
    ELSE IF Head(a) # Head(b) THEN Head(a) > Head(b)
    ELSE DigitsGreater(Tail(a), Tail(b))

ExceedsUsize(run) ==
    LET ds == StripZeros([i \in 1..Len(run) |-> run[i] - DIGIT_0])
    IN  \/ Len(ds) > Len(UsizeMaxDigits)
        \/ Len(ds) = Len(UsizeMaxDigits) /\ DigitsGreater(ds, UsizeMaxDigits)

RECURSIVE DecimalValue(_, _)
DecimalValue(run, acc) ==
    IF run = <<>> THEN acc
    ELSE DecimalValue(Tail(run), acc * 10 + (Head(run) - DIGIT_0))

(* str::parse::<usize> on a non-empty run of ASCII digits: the value, or   *)
(* an error when it does not fit in usize.                                 *)
parse_usize(run) ==
    IF ExceedsUsize(run) THEN Err("PosOverflow") ELSE Ok(DecimalValue(run, 0))

RECURSIVE parse_loop(_, _, _)
parse_loop(f, align, max_width) ==
    IF ~(Len(f) > 0)
    THEN Ok([max_width |-> DynVec_push(max_width, 0), align |-> align])
    ELSE
      LET p == non_digit_position(f) IN
      IF p = None THEN Err(<<"Invalid format sequence">>)
      ELSE
        LET non_digit == p[1]
            w == IF non_digit > 0
                 THEN parse_usize(SubSeq(f, 1, non_digit))
                 ELSE Ok(0)
            c == f[non_digit + 1]
            rest == SubSeq(f, non_digit + 2, Len(f))
        IN  IF w.tag = "Err"
            THEN Err(<<"Invalid width", SubSeq(f, 1, non_digit)>>)
            ELSE
              LET mw == DynVec_push(max_width, w.val) IN
              CASE c = LT -> parse_loop(rest, DynVec_push(align, "Left"), mw)
                [] c = GT -> parse_loop(rest, DynVec_push(align, "Right"), mw)
                [] c = EQ -> parse_loop(rest, DynVec_push(align, "Centered"), mw)
                [] OTHER -> Err(<<"Invalid format character", c>>)

parse_positioning(f) ==
    parse_loop(f, DynVec_new("Left"), DynVec_new(0))

----------------------------------------------------------------------------
(* Inputs of the specification of parse_positioning.                       *)

MaxFmtLen == 3

FmtBytes == {DIGIT_0, DIGIT_0 + 1, DIGIT_9, LT, GT, EQ, 120}

RECURSIVE SeqsUpTo(_, _)
SeqsUpTo(S, n) ==
    IF n = 0 THEN {<<>>}
    ELSE LET shorter == SeqsUpTo(S, n - 1)
         IN  shorter \cup {Append(s, x) : s \in {t \in shorter : Len(t) = n - 1}, x \in S}

Digits(ds) == [i \in 1..Len(ds) |-> ds[i] + DIGIT_0]

(* Format strings with long digit runs: 18446744073709551616, the number   *)
(* after usize::MAX, as a width, alone and before a character that is no   *)
(* alignment; a run of 21 digits; and runs whose value is small.           *)
UsizeMaxPlusOne == Digits([UsizeMaxDigits EXCEPT ![20] = 6])

LongFmts ==
    { UsizeMaxPlusOne \o <<GT>>,
      <<EQ>> \o UsizeMaxPlusOne \o <<GT>>,
      UsizeMaxPlusOne,
      UsizeMaxPlusOne \o <<120>>,
      Digits(UsizeMaxDigits) \o <<DIGIT_0, LT>>,
      [i \in 1..20 |-> DIGIT_0] \o <<DIGIT_0 + 7, LT>>,
      [i \in 1..9 |-> DIGIT_9] \o <<EQ>> }

IdleParse == p_fmt = <<>> /\ p_result = None
IdleWords == w_line = <<>> /\ w_delim = 0 /\ w_until = 0 /\ w_result = None
IdleOld ==
    /\ o_line = <<>> /\ o_delim = 0 /\ o_until = 0
    /\ o_pos = 0 /\ o_words = <<>> /\ o_pc = "idle"
IdleMain ==
    /\ fmt = <<>> /\ out_sep = <<>> /\ str_delim = 0 /\ until = 0
    /\ positioning = None /\ stdin = <<>> /\ indent = None /\ lines = <<>>
    /\ padding = <<>> /\ next_line = 0 /\ stdout = <<>> /\ cells = <<>>
    /\ pc = "idle"
    /\ pass = 0 /\ first_stdout = <<>>

InitParse ==
    /\ p_fmt \in SeqsUpTo(FmtBytes, MaxFmtLen) \cup LongFmts
    /\ p_result = None
    /\ IdleWords /\ IdleOld /\ IdleMain

(* clap hands the positional argument to parse_positioning.                *)
Parse ==
    /\ p_result = None
    /\ p_result' = Some(parse_positioning(p_fmt))
    /\ UNCHANGED <<p_fmt, w_vars, o_vars, m_vars>>

NextParse == Parse

SpecParse == InitParse /\ [][NextParse]_vars

----------------------------------------------------------------------------
(* The format grammar, stated on the string alone.                         *)

MaxColProbe == 3

DigitBytes == DIGIT_0..DIGIT_9
AlignBytes == {LT, GT, EQ}

(* (digits* [<>=])* : only digits and alignment characters, and the last   *)
(* character, when there is one, is an alignment character.                *)
InGrammar(s) ==
    /\ \A i \in 1..Len(s) : s[i] \in DigitBytes \cup AlignBytes
    /\ s = <<>> \/ s[Len(s)] \in AlignBytes

(* The positions (1-based) of the characters that end a digit run.         *)
Terminators(s) == {t \in 1..Len(s) : s[t] \notin DigitBytes}

NthTerminator(s, j) ==
    CHOOSE t \in Terminators(s) :
        Cardinality({u \in Terminators(s) : u < t}) = j - 1

(* The digit run that position t ends.                                     *)
RunBefore(s, t) ==
    LET prev == Max({0} \cup {u \in Terminators(s) : u < t})
    IN  SubSeq(s, prev + 1, t - 1)

WidthOfRun(r) == IF r = <<>> THEN 0 ELSE DecimalValue(r, 0)

AlignmentOf(c) ==
    CASE c = LT -> "Left" [] c = GT -> "Right" [] c = EQ -> "Centered"

EntryCount(s) == Cardinality(Terminators(s))
EntryWidth(s, j) == WidthOfRun(RunBefore(s, NthTerminator(s, j)))
EntryAlign(s, j) == AlignmentOf(s[NthTerminator(s, j)])

(* The first character that is neither a digit nor an alignment character, *)
(* as a set: empty when there is none.                                     *)
FirstBad(s) ==
    LET bad == {t \in 1..Len(s) : s[t] \notin DigitBytes \cup AlignBytes}
    IN  IF bad = {} THEN {} ELSE {Min(bad)}

(* Some digit run that parse_positioning converts (one ended by a          *)
(* character at or before position upto) does not fit in usize.            *)
RunOverflows(s, upto) ==
    \E t \in Terminators(s) : t <= upto /\ ExceedsUsize(RunBefore(s, t))

ParseDone == p_result # None
ParseOk == ParseDone /\ p_result[1].tag = "Ok"
ParseErr(e) == ParseDone /\ p_result[1].tag = "Err" /\ p_result[1].val = e

ParsedContents ==
    LET k == EntryCount(p_fmt)
        pos == p_result[1].val
    IN  /\ pos.max_width.vec = [j \in 1..(k + 1) |->
                                  IF j <= k THEN EntryWidth(p_fmt, j) ELSE 0]
        /\ pos.align.vec = [j \in 1..k |-> EntryAlign(p_fmt, j)]

(* C7, as claimed: parse_positioning succeeds on exactly the strings of    *)
(* the grammar (digits* [<>=])*; a digit run at the end of the string      *)
(* fails with "Invalid format sequence"; a character that is no alignment  *)
(* character where one is expected fails reporting it; on success          *)
(* max_width holds the k widths and a trailing 0, align the k alignments.  *)
C7_ExactlyGrammar ==
    ParseDone =>
      /\ ParseOk <=> InGrammar(p_fmt)
      /\ ParseOk => ParsedContents
      /\ (FirstBad(p_fmt) = {} /\ p_fmt # <<>> /\ p_fmt[Len(p_fmt)] \in DigitBytes)
            => ParseErr(<<"Invalid format sequence">>)
      /\ \A t \in FirstBad(p_fmt) :
            ParseErr(<<"Invalid format character", p_fmt[t]>>)

(* C7, amended: parse_positioning succeeds on exactly the strings of the   *)
(* grammar whose digit runs all fit in usize; when a converted digit run   *)
(* does not fit, it fails with "Invalid width" for the first such run,     *)
(* unless an earlier entry already failed; otherwise a digit run at the    *)
(* end of the string fails with "Invalid format sequence" and a byte that  *)
(* is no alignment character where one is expected fails reporting that    *)
(* byte; on success max_width holds the k widths and a trailing 0, align   *)
(* the k alignments.                                                       *)
C7_GrammarWithinUsize ==
    ParseDone =>
      LET bad == FirstBad(p_fmt)
          upto == IF bad = {} THEN Len(p_fmt) ELSE Min(bad)
      IN  /\ ParseOk <=> (InGrammar(p_fmt) /\ ~RunOverflows(p_fmt, Len(p_fmt)))
          /\ ParseOk => ParsedContents
          /\ RunOverflows(p_fmt, upto) =>
                \E t \in Terminators(p_fmt) :
                    /\ t <= upto
                    /\ ExceedsUsize(RunBefore(p_fmt, t))
                    /\ \A u \in Terminators(p_fmt) :
                          u < t => ~ExceedsUsize(RunBefore(p_fmt, u))
                    /\ ParseErr(<<"Invalid width", RunBefore(p_fmt, t)>>)
          /\ (~RunOverflows(p_fmt, upto) /\ bad = {} /\ p_fmt # <<>>
                /\ p_fmt[Len(p_fmt)] \in DigitBytes)
                => ParseErr(<<"Invalid format sequence">>)
          /\ ~RunOverflows(p_fmt, upto) =>
                \A t \in bad : ParseErr(<<"Invalid format character", p_fmt[t]>>)

(* A string of the grammar whose width does not fit in usize was rejected. *)
C7_Witness ==
    /\ InGrammar(p_fmt)
    /\ EntryCount(p_fmt) = 2
    /\ ParseDone /\ p_result[1].tag = "Err"
    /\ p_result[1].val[1] = "Invalid width"

(* C5, as claimed: after a successful parse of k >= 1 entries every column *)
(* i >= k has the alignment and the minimum width of entry k - 1.          *)
C5_InheritsAlignAndWidth ==
    (ParseOk /\ EntryCount(p_fmt) >= 1) =>
      LET k == EntryCount(p_fmt)
          pos == p_result[1].val
      IN  \A i \in k..(k + MaxColProbe) :
            /\ DynVec_get(pos.align, i) = EntryAlign(p_fmt, k)
            /\ DynVec_get(pos.max_width, i) = EntryWidth(p_fmt, k)

(* C5, amended: after a successful parse of k >= 1 entries every column    *)
(* i >= k has the alignment of entry k - 1 and the minimum width 0.        *)
C5_InheritsAlignOnly ==
    (ParseOk /\ EntryCount(p_fmt) >= 1) =>
      LET k == EntryCount(p_fmt)
          pos == p_result[1].val
      IN  \A i \in k..(k + MaxColProbe) :
            /\ DynVec_get(pos.align, i) = EntryAlign(p_fmt, k)
            /\ DynVec_get(pos.max_width, i) = 0

(* A format whose last entry is not left-aligned and has a width.          *)
C5_Witness ==
    /\ ParseOk
    /\ EntryCount(p_fmt) >= 1
    /\ EntryAlign(p_fmt, EntryCount(p_fmt)) # "Left"
    /\ EntryWidth(p_fmt, EntryCount(p_fmt)) > 0

----------------------------------------------------------------------------
(* Words::new of src/src/main.rs                                           *)

is_space_or_tab(c) == c = SP \/ c = TAB

(* (c as char).is_whitespace() for a byte c: the byte is read as the code  *)
(* point of the same number, and the White_Space code points below 256 are *)
(* U+0009..U+000D, U+0020, U+0085 and U+00A0.                              *)
is_whitespace(c) == c \in (TAB..CR) \cup {SP, NEL, NBSP}

(* str_delim as u8: a char cast to u8 keeps the low 8 bits of its code     *)
(* point.                                                                  *)
delim_byte(d) == d % 256

(* line[pos..].iter().position(|&c| !(c as char).is_whitespace()) *)
non_whitespace_position(line, pos) ==
    LET idx == {i \in pos..(Len(line) - 1) : ~is_whitespace(line[i + 1])}
    IN  IF idx = {} THEN None ELSE Some(Min(idx) - pos)

next_string(esc, string, c, d) ==
    IF ~esc /\ c = delim_byte(d) THEN ~string ELSE string

next_esc_chained(esc, c) == c = BACKSLASH

next_esc(esc, c) == ~esc /\ c = BACKSLASH

(* The for loop over line[start..]: the value of end after it.             *)
RECURSIVE scan_word(_, _, _, _, _, _)
scan_word(line, d, start, i, esc, string) ==
    IF start + i >= Len(line) THEN Len(line)
    ELSE LET c == line[start + i + 1]
             string1 == next_string(esc, string, c, d)
             esc1 == next_esc(esc, c)
         IN  IF ~string1 /\ (c = SP \/ c = TAB)
             THEN start + i
             ELSE scan_word(line, d, start, i + 1, esc1, string1)

last_word_to_space(line, pos) ==
    LET sp == {i \in pos..(Len(line) - 1) : line[i + 1] = SP \/ line[i + 1] = TAB}
    IN  <<pos, IF sp = {} THEN Len(line) ELSE Min(sp)>>

(* The word pushed once until words exist: words.push((pos, line.len())).  *)
last_word(line, pos) == <<pos, Len(line)>>

RECURSIVE words_loop(_, _, _, _, _)
words_loop(line, d, u, pos, words) ==
    IF ~(pos < Len(line)) THEN words
    ELSE
      LET p == non_whitespace_position(line, pos) IN
      IF p = None THEN words
      ELSE
        LET pos1 == pos + p[1] IN
        IF Len(words) = u THEN Append(words, last_word(line, pos1))
        ELSE LET start == pos1
                 end == scan_word(line, d, start, 0, FALSE, FALSE)
             IN  words_loop(line, d, u, end, Append(words, <<start, end>>))

Words_new(line, d, u) ==
    [line |-> line, words |-> words_loop(line, d, u, 0, <<>>)]

(* WordIter::next: the bytes of word i (0-based) of a Words value.         *)
word_at(w, i) == SubSeq(w.line, w.words[i + 1][1] + 1, w.words[i + 1][2])

----------------------------------------------------------------------------
(* Inputs of the specification of Words::new: lines of whitespace bytes    *)
(* and a letter under every limit, and lines of quotes, backslashes,       *)
(* spaces and a letter under every delimiter.                              *)

MaxLineLen == 4
MaxQuoteLen == 6
MaxUntil == 2

LETTER_A == 97

WsBytes == {SP, TAB, LF, VT, FF, CR, LETTER_A}
QuoteBytes == {SP, QUOTE, BACKSLASH, LETTER_A}

(* The default of -u is usize::MAX: a limit no line reaches.  Any limit    *)
(* above the number of bytes of the longest line behaves the same.         *)
NoLimit == MaxLineLen + MaxQuoteLen + 1

(* '"', the default; the NUL character of an empty -s; and U+0122, whose   *)
(* low byte is that of '"'.                                                *)
Delims == {QUOTE, 0, 290}

InitWords ==
    /\ \/ /\ w_line \in SeqsUpTo(WsBytes, MaxLineLen)
          /\ w_delim = QUOTE
          /\ w_until \in 0..MaxUntil \cup {NoLimit}
       \/ /\ w_line \in SeqsUpTo(QuoteBytes, MaxQuoteLen)
          /\ w_delim \in Delims
          /\ w_until \in {1, NoLimit}
    /\ w_result = None
    /\ IdleParse /\ IdleOld /\ IdleMain

Tokenize ==
    /\ w_result = None
    /\ w_result' = Some(Words_new(w_line, w_delim, w_until))
    /\ UNCHANGED <<w_line, w_delim, w_until, p_vars, o_vars, m_vars>>

NextWords == Tokenize

SpecWords == InitWords /\ [][NextWords]_vars

----------------------------------------------------------------------------
(* Words::new, stated on the line and the spans alone.  Positions are      *)
(* 0-based byte offsets; ByteAt(i) is the byte at offset i.                *)

TokenizeDone == w_result # None
Spans == w_result[1].words
ByteAt(i) == w_line[i + 1]
EndOfLine == Len(w_line)

(* White_Space code points below 256.                                      *)
UnicodeWhitespace == {9, 10, 11, 12, 13, 32, 133, 160}
SpaceOrTab == {32, 9}

(* Where the word before span j ends: the start of the line for the first. *)
PrevEnd(j) == IF j = 1 THEN 0 ELSE Spans[j - 1][2]

(* The first offset at or after from whose byte is outside skipped, as a   *)
(* set: empty when every remaining byte is skipped.                        *)
FirstOutside(skipped, from) ==
    LET rest == {p \in from..(EndOfLine - 1) : ByteAt(p) \notin skipped}
    IN  IF rest = {} THEN {} ELSE {Min(rest)}

(* Byte i of the word starting at s is escaped: the backslashes directly   *)
(* before it, inside the word, are odd in number.                          *)
Escaped(s, i) ==
    LET stop == Max({s - 1} \cup {j \in s..(i - 1) : ByteAt(j) # 92})
    IN  (i - 1 - stop) % 2 = 1

(* After byte i of the word starting at s the scan is inside a quoted      *)
(* region: the unescaped delimiter bytes in s..i are odd in number.        *)
InString(s, i) ==
    Cardinality({j \in s..i : ByteAt(j) = w_delim % 256 /\ ~Escaped(s, j)}) % 2 = 1

WordEnd(s) ==
    LET ends == {p \in s..(EndOfLine - 1) :
                    ByteAt(p) \in SpaceOrTab /\ ~InString(s, p)}
    IN  IF ends = {} THEN EndOfLine ELSE Min(ends)

Tokenized(line, d, u, spans) ==
    (w_line = line /\ w_delim % 256 = d /\ w_until = u) => Spans = spans

(* C3: a word that is not the word after the limit ends at the first space *)
(* or tab outside a quoted region, or at end of line, where a delimiter    *)
(* byte toggles the region unless it is escaped and a backslash escapes    *)
(* the next byte only when it is not escaped itself.  With delimiter '"':  *)
(* "a b" is one word; in "\" a the escaped delimiter does not close the    *)
(* region; in "\\" a the delimiter after two backslashes closes it.        *)
C3_WordEndRule ==
    TokenizeDone =>
      /\ \A j \in 1..Len(Spans) :
            j <= w_until => Spans[j][2] = WordEnd(Spans[j][1])
      /\ Tokenized(<<34, 97, 32, 97, 34>>, 34, NoLimit, << <<0, 5>> >>)
      /\ Tokenized(<<34, 92, 34, 32, 97>>, 34, NoLimit, << <<0, 5>> >>)
      /\ Tokenized(<<34, 92, 92, 34, 32, 97>>, 34, NoLimit, << <<0, 4>>, <<5, 6>> >>)
      /\ Tokenized(<<97, 32, 34, 32, 34>>, 34, NoLimit, << <<0, 1>>, <<2, 5>> >>)

(* A quoted region closed after an escaped backslash, and a word after it. *)
C3_Witness ==
    /\ TokenizeDone
    /\ w_line = <<34, 92, 92, 34, 32, 97>>
    /\ w_delim = 34
    /\ Len(Spans) = 2

(* C6: a line yields at most until + 1 words; once until words exist and a *)
(* byte that is not whitespace remains, one more word runs from the first  *)
(* such byte to the end of the line and is the last; spans are non-empty   *)
(* and strictly increasing without overlap.                                *)
C6_ColumnLimit ==
    TokenizeDone =>
      /\ Len(Spans) <= w_until + 1
      /\ \A j \in 1..Len(Spans) :
            /\ 0 <= Spans[j][1] /\ Spans[j][1] < Spans[j][2]
            /\ Spans[j][2] <= EndOfLine
            /\ PrevEnd(j) <= Spans[j][1]
      /\ Len(Spans) >= w_until =>
            LET rest == FirstOutside(UnicodeWhitespace, PrevEnd(w_until + 1))
            IN  /\ rest = {} => Len(Spans) = w_until
                /\ \A p \in rest :
                      /\ Len(Spans) = w_until + 1
                      /\ Spans[w_until + 1] = <<p, EndOfLine>>

(* The word after the limit holds interior and trailing whitespace.        *)
C6_Witness ==
    /\ TokenizeDone
    /\ w_until = 1
    /\ Len(Spans) = 2
    /\ \E p \in Spans[2][1]..(Spans[2][2] - 2) :
          ByteAt(p) \in UnicodeWhitespace /\ ByteAt(p + 1) \notin UnicodeWhitespace
    /\ ByteAt(EndOfLine - 1) \in UnicodeWhitespace

(* Each word starts at the first byte outside skipped after the word       *)
(* before it, and a word follows whenever such a byte remains.             *)
StartsAfterSkipping(skipped) ==
    /\ \A j \in 1..Len(Spans) :
          FirstOutside(skipped, PrevEnd(j)) = {Spans[j][1]}
    /\ Len(Spans) <= w_until =>
          FirstOutside(skipped, PrevEnd(Len(Spans) + 1)) = {}

(* C9, as claimed: between words only spaces and tabs are skipped, so a    *)
(* word starts at the first byte after the word before it that is neither  *)
(* a space nor a tab.                                                      *)
C9_SkipsSpaceAndTab ==
    TokenizeDone => StartsAfterSkipping(SpaceOrTab)

(* C9, amended: between words the bytes that are whitespace as characters  *)
(* (tab, newline, vertical tab, form feed, carriage return, space, and the *)
(* bytes 0x85 and 0xA0) are skipped, so a word starts at the first byte    *)
(* after the word before it that is none of these.                         *)
C9_SkipsWhitespace ==
    TokenizeDone => StartsAfterSkipping(UnicodeWhitespace)

(* A form feed between a space and the next word was skipped.              *)
C9_Witness ==
    /\ TokenizeDone
    /\ Len(Spans) = 2
    /\ Spans[1][2] + 2 = Spans[2][1]
    /\ ByteAt(Spans[1][2]) = 32
    /\ ByteAt(Spans[1][2] + 1) = 12

----------------------------------------------------------------------------
(* Words::new of src/align.rs, one action per iteration of its loop.       *)

(* The word pushed once until words exist: the rest of the line up to its  *)
(* newline.                                                                *)
last_word_to_newline(line, pos) ==
    LET nl == {i \in pos..(Len(line) - 1) : line[i + 1] = LF}
    IN  <<pos, IF nl = {} THEN Len(line) ELSE Min(nl)>>

(* The for loop over line.slice_from(start): the value of pos after it.    *)
(* pos moves only when the loop breaks; at the end of the slice it stays   *)
(* at start.                                                               *)
RECURSIVE old_scan_word(_, _, _, _, _, _)
old_scan_word(line, d, start, i, esc, string) ==
    IF start + i >= Len(line) THEN start
    ELSE LET c == line[start + i + 1]
             string1 == next_string(esc, string, c, d)
             esc1 == next_esc(esc, c)
         IN  IF c = LF \/ (~string1 /\ (c = SP \/ c = TAB))
             THEN start + i
             ELSE old_scan_word(line, d, start, i + 1, esc1, string1)

MaxOldLen == 3

OldBytes == {SP, QUOTE, LETTER_A}

(* The loop of a line that never ends is cut off after this many words, a  *)
(* number no line of the model reaches when every word holds a byte.       *)
MaxOldWords == MaxOldLen + 3

(* read_until('\n') returns the bytes up to and including the newline, or  *)
(* up to the end of input when the last line has no newline.               *)
InitOld ==
    /\ \E s \in SeqsUpTo(OldBytes, MaxOldLen) : o_line \in {s, s \o <<LF>>}
    /\ o_line # <<>>
    /\ o_delim = QUOTE
    /\ o_until \in 0..MaxUntil \cup {NoLimit}
    /\ o_pos = 0 /\ o_words = <<>> /\ o_pc = "loop"
    /\ IdleParse /\ IdleWords /\ IdleMain

(* position(..) finds no byte that is not whitespace: break.               *)
OldBreak ==
    /\ o_pc = "loop"
    /\ non_whitespace_position(o_line, o_pos) = None
    /\ o_pc' = "done"
    /\ UNCHANGED <<o_line, o_delim, o_until, o_pos, o_words, p_vars, w_vars, m_vars>>

(* words.len() == until: the rest of the line, up to its newline.          *)
OldLastWord ==
    /\ o_pc = "loop"
    /\ non_whitespace_position(o_line, o_pos) # None
    /\ Len(o_words) = o_until
    /\ LET pos1 == o_pos + non_whitespace_position(o_line, o_pos)[1]
       IN  /\ o_pos' = pos1
           /\ o_words' = Append(o_words, last_word_to_newline(o_line, pos1))
    /\ o_pc' = "done"
    /\ UNCHANGED <<o_line, o_delim, o_until, p_vars, w_vars, m_vars>>

OldWord ==
    /\ o_pc = "loop"
    /\ non_whitespace_position(o_line, o_pos) # None
    /\ Len(o_words) # o_until
    /\ Len(o_words) < MaxOldWords
    /\ LET start == o_pos + non_whitespace_position(o_line, o_pos)[1]
           pos1 == old_scan_word(o_line, o_delim, start, 0, FALSE, FALSE)
       IN  /\ o_pos' = pos1
           /\ o_words' = Append(o_words, <<start, pos1>>)
    /\ UNCHANGED <<o_line, o_delim, o_until, o_pc, p_vars, w_vars, m_vars>>

NextOld == OldBreak \/ OldLastWord \/ OldWord

SpecOld == InitOld /\ [][NextOld]_vars

(* C10: Words::new of src/align.rs ends on every line: no empty span is    *)
(* pushed, so a line has no more words than bytes, and on a line without a *)
(* trailing newline whose last byte belongs to a word, the last word ends  *)
(* at the end of the line.                                                 *)
C10_EndsAtEndOfLine ==
    /\ \A j \in 1..Len(o_words) : o_words[j][1] < o_words[j][2]
    /\ Len(o_words) <= Len(o_line)
    /\ (o_pc = "done" /\ o_line # <<>> /\ ~is_whitespace(o_line[Len(o_line)]))
          => /\ o_words # <<>>
             /\ o_words[Len(o_words)][2] = Len(o_line)

----------------------------------------------------------------------------
(* The program: read_as_unicode and main of src/src/main.rs.               *)

is_indent(c) == c = SP \/ c = TAB

(* UnicodeWidthStr::width: the sum of the widths of the characters of a    *)
(* UTF-8 string.  A character's bytes are found from its first byte, its   *)
(* code point from their payload bits; East Asian wide characters take two *)
(* columns, combining marks and control characters none, the rest one.     *)
char_len(b) ==
    IF b < 128 THEN 1 ELSE IF b < 224 THEN 2 ELSE IF b < 240 THEN 3 ELSE 4

code_point(bs) ==
    CASE Len(bs) = 1 -> bs[1]
      [] Len(bs) = 2 -> (bs[1] - 192) * 64 + (bs[2] - 128)
      [] Len(bs) = 3 -> (bs[1] - 224) * 4096 + (bs[2] - 128) * 64 + (bs[3] - 128)
      [] OTHER -> (bs[1] - 240) * 262144 + (bs[2] - 128) * 4096
                    + (bs[3] - 128) * 64 + (bs[4] - 128)

char_width(cp) ==
    IF cp < 32 \/ cp \in 127..159 \/ cp \in 768..879 THEN 0
    ELSE IF \/ cp \in 4352..4447 \/ cp \in 11904..42191 \/ cp \in 44032..55203
            \/ cp \in 63744..64255 \/ cp \in 65072..65135
            \/ cp \in 65280..65376 \/ cp \in 65504..65510
         THEN 2
         ELSE 1

RECURSIVE width(_)
width(s) ==
    IF s = <<>> THEN 0
    ELSE LET n == char_len(s[1])
         IN  char_width(code_point(SubSeq(s, 1, n))) + width(SubSeq(s, n + 1, Len(s)))

(* The bytes of the line taken while is_indent holds of them.              *)
leading_indent(line) ==
    LET stop == {i \in 1..Len(line) : ~is_indent(line[i])}
    IN  IF stop = {} THEN line ELSE SubSeq(line, 1, Min(stop) - 1)

measured_always(max_width, i, w) == DynVec_set(max_width, i, w)

(* if width > max_width.get(i) { max_width.set(i, width) } *)
measured(max_width, i, w) ==
    IF w > DynVec_get(max_width, i) THEN DynVec_set(max_width, i, w) ELSE max_width

(* for (i, word) in line.iter().enumerate() *)
RECURSIVE measure_line(_, _, _)
measure_line(max_width, w, i) ==
    IF i >= Len(w.words) THEN max_width
    ELSE measure_line(measured(max_width, i, width(word_at(w, i))), w, i + 1)

(* *max_width.vec.iter().max().unwrap_or(&0) *)
max_max_width(max_width) ==
    IF max_width.vec = <<>> THEN 0
    ELSE Max({max_width.vec[j] : j \in 1..Len(max_width.vec)})

(* What one word adds to the line; ok is FALSE when the program panics:    *)
(* max_width.get(i) - word.width() below zero (a panic in a debug build, a *)
(* wrapped value and then a slice out of range in a release build) or a    *)
(* slice padding[0..n] with n above padding.len().                         *)
slice_to(pad_buf, n) ==
    [ok |-> n <= Len(pad_buf), bytes |-> SubSeq(pad_buf, 1, n)]

left_cell_always_padded(word, pad, pad_buf, has_next) ==
    [ok |-> slice_to(pad_buf, pad).ok,
     bytes |-> word \o slice_to(pad_buf, pad).bytes]

left_cell(word, pad, pad_buf, has_next) ==
    IF has_next
    THEN [ok |-> slice_to(pad_buf, pad).ok,
          bytes |-> word \o slice_to(pad_buf, pad).bytes]
    ELSE [ok |-> TRUE, bytes |-> word]

right_cell_unpadded(word, pad, pad_buf, has_next) ==
    [ok |-> TRUE, bytes |-> word]

right_cell(word, pad, pad_buf, has_next) ==
    [ok |-> slice_to(pad_buf, pad).ok,
     bytes |-> slice_to(pad_buf, pad).bytes \o word]

centered_cell(word, pad, pad_buf, has_next) ==
    LET before == slice_to(pad_buf, pad \div 2)
        after == slice_to(pad_buf, pad - pad \div 2)
    IN  IF has_next
        THEN [ok |-> before.ok /\ after.ok,
              bytes |-> before.bytes \o word \o after.bytes]
        ELSE [ok |-> before.ok, bytes |-> before.bytes \o word]

cell(pos, pad_buf, i, word, has_next) ==
    LET pad == DynVec_get(pos.max_width, i) - width(word)
        a == DynVec_get(pos.align, i)
    IN  IF pad < 0 THEN [ok |-> FALSE, bytes |-> <<>>]
        ELSE CASE a = "Left" -> left_cell(word, pad, pad_buf, has_next)
               [] a = "Right" -> right_cell(word, pad, pad_buf, has_next)
               [] a = "Centered" -> centered_cell(word, pad, pad_buf, has_next)

(* while let Some((i, word)) = words.next(): acc holds the bytes written   *)
(* for the line so far, the display width at which each word was reached,  *)
(* and whether the program is still running.                               *)
RECURSIVE write_words(_, _, _, _, _, _)
write_words(w, pos, pad_buf, sep, i, acc) ==
    IF i >= Len(w.words) \/ ~acc.ok THEN acc
    ELSE
      LET has_next == i + 1 < Len(w.words)
          c == cell(pos, pad_buf, i, word_at(w, i), has_next)
          acc1 == [ok |-> c.ok,
                   bytes |-> IF c.ok
                             THEN acc.bytes \o c.bytes
                                    \o (IF has_next THEN sep ELSE <<>>)
                             ELSE acc.bytes,
                   starts |-> Append(acc.starts, width(acc.bytes))]
      IN  write_words(w, pos, pad_buf, sep, i + 1, acc1)

(* The body of for line in lines.iter(), the final newline included.       *)
write_line(w, ind, pos, pad_buf, sep) ==
    LET first == [ok |-> TRUE,
                  bytes |-> IF Len(w.words) > 0 THEN ind ELSE <<>>,
                  starts |-> <<>>]
        acc == write_words(w, pos, pad_buf, sep, 0, first)
    IN  [acc EXCEPT !.bytes = IF acc.ok THEN acc.bytes \o <<LF>> ELSE acc.bytes]

(* BufRead::lines over a byte stream: the pieces between newlines, each    *)
(* without its newline and without a carriage return before it; bytes      *)
(* after the last newline are a line of their own.                         *)
RECURSIVE buf_lines(_, _)
buf_lines(bytes, cur) ==
    IF bytes = <<>> THEN (IF cur = <<>> THEN <<>> ELSE <<cur>>)
    ELSE IF Head(bytes) = LF
         THEN <<IF cur # <<>> /\ cur[Len(cur)] = CR
                THEN SubSeq(cur, 1, Len(cur) - 1) ELSE cur>>
                \o buf_lines(Tail(bytes), <<>>)
         ELSE buf_lines(Tail(bytes), Append(cur, Head(bytes)))

----------------------------------------------------------------------------
(* Inputs of the program: a configuration and up to MaxLines lines, read   *)
(* to the end or until a line that is not UTF-8.                           *)

MaxLines == 2

WIDE == <<230, 151, 165>>
COMBINING == <<204, 129>>
BAR == 124

MainLines ==
    { <<>>,
      <<SP>>,
      <<LETTER_A>>,
      <<SP, LETTER_A>>,
      <<LETTER_A, SP, LETTER_A, LETTER_A>>,
      WIDE \o <<SP, LETTER_A>>,
      <<LETTER_A, LETTER_A, SP, LETTER_A, SP, SP, LETTER_A>>,
      <<LETTER_A, SP>>,
      COMBINING \o <<SP, LETTER_A>> }

Configs ==
    { [fmt |-> <<>>, out_sep |-> <<SP>>, until |-> NoLimit],
      [fmt |-> <<>>, out_sep |-> <<SP>>, until |-> 1],
      [fmt |-> <<DIGIT_0 + 3, LT>>, out_sep |-> <<SP>>, until |-> NoLimit],
      [fmt |-> <<GT>>, out_sep |-> <<SP>>, until |-> NoLimit],
      [fmt |-> <<EQ>>, out_sep |-> <<BAR>>, until |-> NoLimit],
      [fmt |-> <<DIGIT_0 + 1, GT, DIGIT_0 + 4, EQ>>, out_sep |-> <<SP, BAR>>, until |-> 2],
      [fmt |-> <<DIGIT_0 + 2>>, out_sep |-> <<SP>>, until |-> NoLimit] }

(* A read of stdin that fails: the line is not valid UTF-8.                *)
InvalidData == Err(<<>>)

Init ==
    /\ \E c \in Configs :
          fmt = c.fmt /\ out_sep = c.out_sep /\ until = c.until
    /\ str_delim = QUOTE
    /\ \E oks \in SeqsUpTo(MainLines, MaxLines), rest \in {<<>>, <<InvalidData>>} :
          stdin = [j \in 1..Len(oks) |-> Ok(oks[j])] \o rest
    /\ positioning = None /\ indent = None /\ lines = <<>>
    /\ padding = <<>> /\ next_line = 0 /\ stdout = <<>> /\ cells = <<>>
    /\ pc = "parse" /\ pass = 1 /\ first_stdout = <<>>
    /\ IdleParse /\ IdleWords /\ IdleOld

(* Opts::parse(): the positional argument goes through parse_positioning.  *)
OptsParse ==
    /\ pc = "parse"
    /\ parse_positioning(fmt).tag = "Ok"
    /\ positioning' = Some(parse_positioning(fmt).val)
    /\ pc' = "read"
    /\ UNCHANGED <<fmt, out_sep, str_delim, until, stdin, indent, lines, padding,
                   next_line, stdout, cells, pass, first_stdout,
                   p_vars, w_vars, o_vars>>

(* A format string parse_positioning rejects: clap reports it and exits.   *)
OptsParseError ==
    /\ pc = "parse"
    /\ parse_positioning(fmt).tag = "Err"
    /\ pc' = "usage"
    /\ UNCHANGED <<fmt, out_sep, str_delim, until, positioning, stdin, indent,
                   lines, padding, next_line, stdout, cells, pass, first_stdout,
                   p_vars, w_vars, o_vars>>

(* read_as_unicode, one iteration of for line in stdin.lines().            *)
ReadLine ==
    /\ pc = "read"
    /\ stdin # <<>> /\ Head(stdin).tag = "Ok"
    /\ LET line == Head(stdin).val
           w == Words_new(line, str_delim, until)
       IN  /\ indent' = IF indent = None THEN Some(leading_indent(line)) ELSE indent
           /\ positioning' =
                Some([positioning[1] EXCEPT
                        !.max_width = measure_line(positioning[1].max_width, w, 0)])
           /\ lines' = Append(lines, w)
    /\ stdin' = Tail(stdin)
    /\ UNCHANGED <<fmt, out_sep, str_delim, until, padding, next_line, stdout,
                   cells, pc, pass, first_stdout, p_vars, w_vars, o_vars>>

(* main after read_as_unicode returns: nothing read, nothing written;      *)
(* otherwise the padding buffer is built.                                  *)
AfterRead ==
    IF Len(lines) = 0
    THEN pc' = "done" /\ padding' = padding
    ELSE /\ padding' = Spaces(max_max_width(positioning[1].max_width))
         /\ pc' = "write"

(* The end of input ends the loop.                                         *)
ReadEnd ==
    /\ pc = "read"
    /\ stdin = <<>>
    /\ AfterRead
    /\ UNCHANGED <<fmt, out_sep, str_delim, until, positioning, stdin, indent,
                   lines, next_line, stdout, cells, pass, first_stdout,
                   p_vars, w_vars, o_vars>>

(* let Ok(line) = line else { break }: the lines read so far are kept.     *)
ReadError ==
    /\ pc = "read"
    /\ stdin # <<>> /\ Head(stdin).tag = "Err"
    /\ AfterRead
    /\ UNCHANGED <<fmt, out_sep, str_delim, until, positioning, stdin, indent,
                   lines, next_line, stdout, cells, pass, first_stdout,
                   p_vars, w_vars, o_vars>>

(* main, one iteration of for line in lines.iter().                        *)
WriteLine ==
    /\ pc = "write"
    /\ next_line < Len(lines)
    /\ LET out == write_line(lines[next_line + 1], indent[1], positioning[1],
                             padding, out_sep)
       IN  /\ stdout' = stdout \o out.bytes
           /\ cells' = Append(cells, out.starts)
           /\ pc' = IF out.ok THEN "write" ELSE "panic"
    /\ next_line' = next_line + 1
    /\ UNCHANGED <<fmt, out_sep, str_delim, until, positioning, stdin, indent,
                   lines, padding, pass, first_stdout, p_vars, w_vars, o_vars>>

(* Every line is written: main returns.                                    *)
Return ==
    /\ pc = "write"
    /\ next_line = Len(lines)
    /\ pc' = "done"
    /\ UNCHANGED <<fmt, out_sep, str_delim, until, positioning, stdin, indent,
                   lines, padding, next_line, stdout, cells, pass, first_stdout,
                   p_vars, w_vars, o_vars>>

(* The program is run again under the same options on what it wrote.       *)
RunAgain ==
    /\ pc = "done"
    /\ pass = 1
    /\ stdin' = LET ls == buf_lines(stdout, <<>>)
                IN  [j \in 1..Len(ls) |-> Ok(ls[j])]
    /\ first_stdout' = stdout
    /\ positioning' = None /\ indent' = None /\ lines' = <<>>
    /\ padding' = <<>> /\ next_line' = 0 /\ stdout' = <<>> /\ cells' = <<>>
    /\ pc' = "parse" /\ pass' = 2
    /\ UNCHANGED <<fmt, out_sep, str_delim, until, p_vars, w_vars, o_vars>>

Next ==
    \/ OptsParse \/ OptsParseError
    \/ ReadLine \/ ReadEnd \/ ReadError
    \/ WriteLine \/ Return
    \/ RunAgain

Spec == Init /\ [][Next]_vars

----------------------------------------------------------------------------
(* The output, stated on the lines read, the final widths and the          *)
(* alignments.  Line n is 1-based, column i 0-based.                       *)

Measured == pc \in {"write", "done", "panic"}
WordCount(n) == Len(lines[n].words)
Word(n, i) == SubSeq(lines[n].line, lines[n].words[i + 1][1] + 1, lines[n].words[i + 1][2])
ColumnWidth(i) == DynVec_get(positioning[1].max_width, i)
ColumnAlign(i) == DynVec_get(positioning[1].align, i)
Pad(n, i) == ColumnWidth(i) - width(Word(n, i))
Follows(n, i) == i + 1 < WordCount(n)

RECURSIVE Sum(_, _)
Sum(f, S) ==
    IF S = {} THEN 0
    ELSE LET x == CHOOSE y \in S : TRUE IN f[x] + Sum(f, S \ {x})

ExpectedCell(n, i) ==
    LET w == Word(n, i)
        pad == Pad(n, i)
    IN  CASE ColumnAlign(i) = "Left" ->
               w \o (IF Follows(n, i) THEN Spaces(pad) ELSE <<>>)
          [] ColumnAlign(i) = "Right" ->
               Spaces(pad) \o w
          [] ColumnAlign(i) = "Centered" ->
               Spaces(pad \div 2) \o w
                 \o (IF Follows(n, i) THEN Spaces(pad - pad \div 2) ELSE <<>>)

ExpectedLine(n) ==
    (IF WordCount(n) > 0 THEN indent[1] ELSE <<>>)
      \o Concat([k \in 1..WordCount(n) |->
                   ExpectedCell(n, k - 1)
                     \o (IF Follows(n, k - 1) THEN out_sep ELSE <<>>)])
      \o <<10>>

(* C1: every line written holds, after the indentation, for each word its  *)
(* cell (Left: the word, then pad spaces if a word follows; Right: pad     *)
(* spaces, then the word; Centered: pad/2 spaces, the word, then the rest  *)
(* of pad if a word follows), the separator after each word that another   *)
(* follows, and one newline at the end.                                    *)
C1_Rendering ==
    Measured =>
      stdout = Concat([n \in 1..next_line |-> ExpectedLine(n)])

(* A centered word with odd padding that another word follows was written. *)
C1_Witness ==
    /\ pc = "done" /\ next_line > 0
    /\ \E n \in 1..next_line : \E i \in 0..(WordCount(n) - 1) :
          /\ ColumnAlign(i) = "Centered"
          /\ Pad(n, i) % 2 = 1
          /\ Follows(n, i)

CellOffset(i) ==
    width(indent[1])
      + Sum([j \in 0..(i - 1) |-> ColumnWidth(j) + width(out_sep)], 0..(i - 1))

(* C2: the cell of column i begins at the same display width on every line *)
(* that has a word at column i: the width of the indentation plus, for     *)
(* each column before it, that column's width and the separator's.         *)
C2_ColumnsAligned ==
    Measured =>
      /\ \A n \in 1..Len(cells) : \A i \in 0..(WordCount(n) - 1) :
            cells[n][i + 1] = CellOffset(i)
      /\ \A n, m \in 1..Len(cells) :
            \A i \in 0..(WordCount(n) - 1) :
               i < WordCount(m) => cells[n][i + 1] = cells[m][i + 1]

(* Two lines with words of different widths in a right-aligned first       *)
(* column were written.                                                    *)
C2_Witness ==
    /\ pc = "done" /\ Len(cells) = 2
    /\ WordCount(1) >= 2 /\ WordCount(2) >= 2
    /\ ColumnAlign(0) = "Right"
    /\ width(Word(1, 0)) # width(Word(2, 0))
    /\ cells[1][2] = cells[2][2]

ConfiguredWidth(i) == DynVec_get(parse_positioning(fmt).val.max_width, i)

WidthsAt(i) == {width(Word(n, i)) : n \in {m \in 1..Len(lines) : i < WordCount(m)}}

(* C8: once every line is measured, each word is no wider than its column, *)
(* a column's width is the larger of its configured minimum and its widest *)
(* word, no padding is longer than the padding buffer, and the program     *)
(* does not panic.                                                         *)
C8_PaddingDefined ==
    Measured =>
      /\ pc # "panic"
      /\ \A n \in 1..Len(lines) : \A i \in 0..(WordCount(n) - 1) :
            /\ ColumnWidth(i) >= width(Word(n, i))
            /\ pc = "write" => Pad(n, i) <= Len(padding)
      /\ \A i \in 0..(MaxColProbe + 2) :
            ColumnWidth(i) = Max({ConfiguredWidth(i)} \cup WidthsAt(i))

(* A word of width 0 left column 0 unset, a later column grew the vector,  *)
(* and a word narrower than its column was written.                        *)
C8_Witness ==
    /\ pc = "done" /\ next_line > 0
    /\ Len(positioning[1].max_width.vec) > Len(parse_positioning(fmt).val.max_width.vec)
    /\ \E n \in 1..Len(lines) : WordCount(n) > 0 /\ width(Word(n, 0)) = 0
    /\ \E n \in 1..Len(lines) : \E i \in 0..(WordCount(n) - 1) : Pad(n, i) > 0

AllLeft == \A j \in 1..Len(fmt) : fmt[j] \in DigitBytes \cup {LT}

(* C4: with every column left-aligned and the single-space separator, the  *)
(* program run on its own output writes that output again.                 *)
C4_Idempotent ==
    (pc = "done" /\ pass = 2 /\ AllLeft /\ out_sep = <<32>>)
      => stdout = first_stdout

=============================================================================
